---- MODULE Spec2Model ----
(***************************************************************************)
(* Model of RichClient.GetAccountTokenTransfers (rich_client.go): the      *)
(* enrichment loop that, for every record of the list fetched from the     *)
(* index service, starts one goroutine calling GetTransactionByHash and    *)
(* then GetBlockRevertRateByHash, in waves of at most RPCConcurrence        *)
(* goroutines separated by a sync.WaitGroup barrier.                       *)
(*                                                                         *)
(* Record positions are 0-based as in the Go source.  The transaction hash *)
(* of the record at position k is modelled as the number k (the hashes of  *)
(* one page are pairwise distinct).  The node is an external collaborator: *)
(* every call returns any of its possible results.                         *)
(***************************************************************************)
EXTENDS Integers, Sequences, FiniteSets, TLC

\* Largest batch (len(tteList.List)) explored.
MaxN == 4
\* Largest value of constants.RPCConcurrence explored.
MaxCon == 2
\* Largest number of NewRichClient calls explored.
MaxClients == 2

\* Block hashes and revert rates the node may answer with.
Blocks == {"b1", "b2"}
Rates == {"r1", "r2"}
\* Zero value of TokenTransferEvent.BlockHash / RevertRate.
Unset == "unset"

VARIABLES
  all,             \* len(tteList.List)
  RPCConcurrence,  \* constants.RPCConcurrence
  con,             \* size of the current wave
  excuted,         \* number of records handed to a goroutine so far
  i,               \* counter of the inner launch loop
  isLastLoop,
  errorStrs,       \* the shared failure list
  wg,              \* counter of the current sync.WaitGroup
  list,            \* tteList.List: position -> record
  tasks,           \* the goroutines started so far, in launch order
  pc,              \* position of the calling goroutine
  result,          \* what GetAccountTokenTransfers returned
  waves,           \* history: the sizes passed to wg.Add, in order
  globals,         \* the package-level server and path settings
  clients,         \* the RichClients constructed so far
  send             \* one call of CreateSendTokenTransaction

\* The state of GetAccountTokenTransfers.
enrichVars == <<all, RPCConcurrence, con, excuted, i, isLastLoop, errorStrs,
                wg, list, tasks, pc, result, waves>>

\* The state of the other operations of the package.
otherVars == <<globals, clients, send>>

vars == <<enrichVars, otherVars>>

Positions == 0 .. (all - 1)

\* A record as decoded from the index service: the two enriched fields unset.
NewEvent(k) == [TransactionHash |-> k, BlockHash |-> Unset, RevertRate |-> Unset]

\* Results of rc.client.GetTransactionByHash: an error, no error and no
\* transaction object, a transaction without block hash, a transaction with one.
TxResults == {"err", "nil", "unmined"} \cup Blocks
\* Results of rc.client.GetBlockRevertRateByHash.
RateResults == {"err"} \cup Rates

\* A nil *TokenTransferEventList.
NilList == [k \in {} |-> NewEvent(k)]

\* Before GetAccountTokenTransfers has returned.
NoResult ==
  [returned |-> FALSE, listNil |-> TRUE, list |-> NilList,
   errNil |-> TRUE, err |-> <<>>]

----------------------------------------------------------------------------
\* Package-level settings (lines 57-75) and ServerConfig (lines 44-55)

\* The fields of ServerConfig.
Settings ==
  {"CfxScanBackendSchema", "CfxScanBackendAddress", "ContractManagerSchema",
   "ContractManagerAddress", "AccountBalancesPath", "AccountTokenTxListPath",
   "TxListPath", "ContractQueryPath"}

\* The package-level variables as the var block initialises them.
DefaultGlobals ==
  [cfxScanBackend |-> [Scheme |-> "http", Address |-> "101.201.103.131:8885"],
   contractManager |-> [Scheme |-> "http", Address |-> "101.201.103.131:8886"],
   accountBalancesPath |-> "/api/account/token/list",
   accountTokenTxListPath |-> "/future/transfer/list",
   txListPath |-> "/future/transaction/list",
   contractQueryPath |-> "/api/contract/query"]

\* The settings a client's methods work with when the package-level state is
\* gl: the servers through the client's two pointers, the paths through the
\* package-level variables.
UsesIn(gl, rc) ==
  [f \in Settings |->
     CASE f = "CfxScanBackendSchema" -> gl[rc.cfxScanBackend].Scheme
       [] f = "CfxScanBackendAddress" -> gl[rc.cfxScanBackend].Address
       [] f = "ContractManagerSchema" -> gl[rc.contractManager].Scheme
       [] f = "ContractManagerAddress" -> gl[rc.contractManager].Address
       [] f = "AccountBalancesPath" -> gl.accountBalancesPath
       [] f = "AccountTokenTxListPath" -> gl.accountTokenTxListPath
       [] f = "TxListPath" -> gl.txListPath
       [] f = "ContractQueryPath" -> gl.contractQueryPath]

\* No call of CreateSendTokenTransaction yet.
NoSend == [pc |-> "idle"]

\* The other operations before any of them has run.
OtherInit ==
  /\ globals = DefaultGlobals
  /\ clients = <<>>
  /\ send = NoSend

----------------------------------------------------------------------------

Init ==
  /\ OtherInit
  /\ all \in 0 .. MaxN
  /\ RPCConcurrence \in 1 .. MaxCon
  /\ con = RPCConcurrence
  /\ excuted = 0
  /\ i = 0
  /\ isLastLoop = FALSE
  /\ errorStrs = <<>>
  /\ wg = 0
  /\ list = [k \in Positions |-> NewEvent(k)]
  /\ tasks = <<>>
  /\ pc = "loop"
  /\ result = NoResult
  /\ waves = <<>>

----------------------------------------------------------------------------
\* The calling goroutine

\* isLastLoop := (all-excuted)/con == 0
IsLastLoop(a, e, c) == (a - e) \div c = 0

\* A last wave that keeps the full size.
LastConFull(a, c) == c

\* con = all % con
LastCon(a, c) == a % c

\* Lines 235-242: head of one iteration of the outer loop, up to wg.Add(con).
LoopHead ==
  /\ pc = "loop"
  /\ IF con = 0
       THEN \* integer division by zero panics
            /\ pc' = "panic"
            /\ UNCHANGED <<con, isLastLoop, wg, i, waves>>
       ELSE LET last == IsLastLoop(all, excuted, con)
                c == IF last THEN LastCon(all, con) ELSE con
            IN /\ isLastLoop' = last
               /\ con' = c
               /\ wg' = wg + c
               /\ i' = 0
               /\ waves' = Append(waves, c)
               /\ pc' = "launch"
  /\ UNCHANGED <<all, RPCConcurrence, excuted, errorStrs, list, tasks, result>>
  /\ UNCHANGED otherVars

\* A launch that hands every goroutine the first record.
TaskRecordFirst(e) == 0

\* The record the goroutine started at `excuted` points to: &tteList.List[excuted]
TaskRecord(e) == e

\* Lines 244-246, 270-271: one iteration of the inner loop starts one goroutine,
\* which at once issues GetTransactionByHash(_tte.TransactionHash).
Launch ==
  /\ pc = "launch"
  /\ i < con
  /\ IF TaskRecord(excuted) \notin Positions
       THEN \* index out of range panics
            /\ pc' = "panic"
            /\ UNCHANGED <<tasks, excuted, i>>
       ELSE /\ tasks' = Append(tasks,
                 [tte |-> TaskRecord(excuted),
                  hash |-> list[TaskRecord(excuted)].TransactionHash,
                  pc |-> "tx", wave |-> Len(waves),
                  tx |-> "none", rate |-> "none", rd |-> <<>>])
            /\ excuted' = excuted + 1
            /\ i' = i + 1
            /\ pc' = pc
  /\ UNCHANGED <<all, RPCConcurrence, con, isLastLoop, errorStrs, wg, list,
                 result, waves>>
  /\ UNCHANGED otherVars

\* A loop whose wg.Wait() does not wait.
WaitDoneNoBarrier(w) == TRUE

\* wg.Wait() returns when the counter is zero.
WaitDone(w) == w = 0

\* A loop that gives up after the first wave with a failure.
ExitLoopFailFast(last, errs) == last \/ Len(errs) > 0

\* if isLastLoop { break }
ExitLoop(last, errs) == last

\* Lines 273-277: the barrier at the end of the wave, then break or loop again.
Wait ==
  /\ pc = "launch"
  /\ ~(i < con)
  /\ WaitDone(wg)
  /\ pc' = IF ExitLoop(isLastLoop, errorStrs) THEN "ret" ELSE "loop"
  /\ UNCHANGED <<all, RPCConcurrence, con, excuted, i, isLastLoop, errorStrs,
                 wg, list, tasks, result, waves>>
  /\ UNCHANGED otherVars

\* A check that overlooks a single failure.
HasErrorsOffByOne(errs) == Len(errs) > 1

\* len(errorStrs) > 0
HasErrors(errs) == Len(errs) > 0

\* Lines 280-285: the joined error and no list, or the list and no error.
Return ==
  /\ pc = "ret"
  /\ result' = IF HasErrors(errorStrs)
                 THEN [returned |-> TRUE, listNil |-> TRUE, list |-> NilList,
                       errNil |-> FALSE, err |-> errorStrs]
                 ELSE [returned |-> TRUE, listNil |-> FALSE, list |-> list,
                       errNil |-> TRUE, err |-> <<>>]
  /\ pc' = "done"
  /\ UNCHANGED <<all, RPCConcurrence, con, excuted, i, isLastLoop, errorStrs,
                 wg, list, tasks, waves>>
  /\ UNCHANGED otherVars

----------------------------------------------------------------------------
\* The goroutine started for one record (lines 246-270)

\* A panic ends the process and every goroutine with it.
Running == pc # "panic"

\* The message built by fmt.Sprintf at line 252 (it names the transaction
\* hash) and at line 261 (it names the block hash).  `task` is bookkeeping:
\* the goroutine that built the message.
TxErrMsgFirst(g) ==
  [kind |-> "tx", txHash |-> list[0].TransactionHash, task |-> g]
TxErrMsg(g) ==
  [kind |-> "tx", txHash |-> list[tasks[g].tte].TransactionHash, task |-> g]
RateErrMsg(g) ==
  [kind |-> "rate", blockHash |-> tasks[g].tx, task |-> g]
ErrMsg(g) == IF tasks[g].rate = "err" THEN RateErrMsg(g) ELSE TxErrMsg(g)

\* A check that takes a transaction without block for a failure.
TxFailedOrUnmined(r) == r \in {"err", "unmined"}

\* err != nil after GetTransactionByHash
TxFailed(r) == r = "err"

\* Lines 250-259: GetTransactionByHash returns r.
TxReturn(g, r) ==
  /\ Running
  /\ g \in 1 .. Len(tasks)
  /\ tasks[g].pc = "tx"
  /\ IF TxFailed(r)
       THEN /\ tasks' = [tasks EXCEPT ![g].tx = r, ![g].pc = "append"]
            /\ UNCHANGED <<wg, pc>>
       ELSE IF r = "nil"
         THEN \* tx.BlockHash on a nil *types.Transaction: nil dereference,
              \* the panic of a goroutine ends the process
              /\ tasks' = [tasks EXCEPT ![g].tx = r, ![g].pc = "panic"]
              /\ pc' = "panic"
              /\ UNCHANGED wg
       ELSE IF r = "unmined"
         THEN \* tx.BlockHash == nil: return, deferred wg.Done()
              /\ tasks' = [tasks EXCEPT ![g].tx = r, ![g].pc = "done"]
              /\ wg' = wg - 1
              /\ UNCHANGED pc
         ELSE \* GetBlockRevertRateByHash(*tx.BlockHash) is issued
              /\ tasks' = [tasks EXCEPT ![g].tx = r, ![g].pc = "rate"]
              /\ UNCHANGED <<wg, pc>>
  /\ UNCHANGED <<all, RPCConcurrence, con, excuted, i, isLastLoop, errorStrs,
                 list, result, waves>>
  /\ UNCHANGED otherVars

\* An enrichment that forgets the block hash.
EnrichedRateOnly(ev, blk, rate) == [ev EXCEPT !.RevertRate = rate]

\* The record after lines 265-266.
Enriched(ev, blk, rate) == [ev EXCEPT !.BlockHash = blk, !.RevertRate = rate]

\* A goroutine that stores the block hash before it asks for the revert rate.
RateFailedKeepsBlock(ev, blk) == [ev EXCEPT !.BlockHash = blk]

\* The record when GetBlockRevertRateByHash failed: line 263 returns before
\* lines 265-266, the record is not written.
RateFailed(ev, blk) == ev

\* Lines 259-268: GetBlockRevertRateByHash returns r.
RateReturn(g, r) ==
  /\ Running
  /\ g \in 1 .. Len(tasks)
  /\ tasks[g].pc = "rate"
  /\ IF r = "err"
       THEN /\ tasks' = [tasks EXCEPT ![g].rate = r, ![g].pc = "append"]
            /\ list' = [list EXCEPT ![tasks[g].tte] = RateFailed(@, tasks[g].tx)]
            /\ UNCHANGED wg
       ELSE /\ tasks' = [tasks EXCEPT ![g].rate = r, ![g].pc = "done"]
            /\ list' = [list EXCEPT ![tasks[g].tte] = Enriched(@, tasks[g].tx, r)]
            /\ wg' = wg - 1
  /\ UNCHANGED <<all, RPCConcurrence, con, excuted, i, isLastLoop, errorStrs,
                 pc, result, waves>>
  /\ UNCHANGED otherVars

\* errorStrs = append(errorStrs, errMsg) (lines 253, 262) runs in concurrent
\* goroutines without a lock: a data race.  The statement is a read of the
\* shared slice followed by a store of the extended slice, and goroutines of
\* one wave may interleave between the two, so every outcome from "all
\* messages kept, in any order" to "only the last store survives" is possible.
\* The goroutine first reads the slice ...
AppendRead(g) ==
  /\ Running
  /\ g \in 1 .. Len(tasks)
  /\ tasks[g].pc = "append"
  /\ tasks' = [tasks EXCEPT ![g].rd = errorStrs, ![g].pc = "write"]
  /\ UNCHANGED <<all, RPCConcurrence, con, excuted, i, isLastLoop, errorStrs,
                 wg, list, pc, result, waves>>
  /\ UNCHANGED otherVars

\* An append that puts the new message in front.
AppendedInFront(rd, msg) == <<msg>> \o rd

\* An append whose result is thrown away.
AppendedDropped(rd, msg) == rd

\* The slice stored back by append.
Appended(rd, msg) == Append(rd, msg)

\* ... and then stores the slice it read with the message added; return and
\* the deferred wg.Done() follow.
AppendWrite(g) ==
  /\ Running
  /\ g \in 1 .. Len(tasks)
  /\ tasks[g].pc = "write"
  /\ errorStrs' = Appended(tasks[g].rd, ErrMsg(g))
  /\ tasks' = [tasks EXCEPT ![g].pc = "done", ![g].rd = <<>>]
  /\ wg' = wg - 1
  /\ UNCHANGED <<all, RPCConcurrence, con, excuted, i, isLastLoop, list, pc,
                 result, waves>>
  /\ UNCHANGED otherVars

----------------------------------------------------------------------------

Next ==
  \/ LoopHead
  \/ Launch
  \/ Wait
  \/ Return
  \/ \E g \in 1 .. Len(tasks) : \E r \in TxResults : TxReturn(g, r)
  \/ \E g \in 1 .. Len(tasks) : \E r \in RateResults : RateReturn(g, r)
  \/ \E g \in 1 .. Len(tasks) : AppendRead(g)
  \/ \E g \in 1 .. Len(tasks) : AppendWrite(g)

Spec == Init /\ [][Next]_vars

----------------------------------------------------------------------------
\* Vocabulary of the properties

Tasks == 1 .. Len(tasks)

\* Goroutines started and not yet finished.
InFlight == {g \in Tasks : tasks[g].pc # "done"}

\* Goroutines whose GetTransactionByHash call has not returned yet.
InFlightTx == {g \in Tasks : tasks[g].pc = "tx"}

\* Goroutines one of whose node calls returned an error.
Failed == {g \in Tasks : tasks[g].tx = "err" \/ tasks[g].rate = "err"}

\* Positions in errorStrs of the messages built by goroutine g.
MsgsOf(errs, g) == {p \in 1 .. Len(errs) : errs[p].task = g}

----------------------------------------------------------------------------
\* C1: at every instant at most RPCConcurrence goroutines have started and
\* not finished, hence at most RPCConcurrence GetTransactionByHash calls are
\* in flight.
C1_ConcurrencyCeiling ==
  /\ Cardinality(InFlight) <= RPCConcurrence
  /\ Cardinality(InFlightTx) <= RPCConcurrence

\* A full second wave is in flight.
C1_Witness ==
  /\ RPCConcurrence = 2
  /\ Len(waves) = 2
  /\ Cardinality(InFlightTx) = 2

\* C2: when the call returns, the failure list holds exactly one message per
\* failing record: k failures give k messages.
C2_NoFailureLost ==
  result.returned =>
    /\ Len(errorStrs) = Cardinality(Failed)
    /\ \A g \in Failed : Cardinality(MsgsOf(errorStrs, g)) = 1

\* C3: the call returns the list and no error iff no goroutine recorded a
\* failure; otherwise it returns an error and a nil list.
C3_AllOrNothing ==
  result.returned =>
    /\ (Failed = {}) <=> (result.errNil /\ ~result.listNil)
    /\ (Failed # {}) <=> (~result.errNil /\ result.listNil)
    /\ ~result.listNil => result.list = list

\* The call returned an error although another record was enriched.
C3_Witness ==
  /\ result.returned
  /\ ~result.errNil
  /\ \E g \in Tasks : tasks[g].rate \in Rates

----------------------------------------------------------------------------
\* The calling goroutine panicked (index out of range, division by zero).
MainPanic == pc = "panic" /\ \A g \in Tasks : tasks[g].pc # "panic"

\* Goroutines started for position k.
TasksOf(k) == {g \in Tasks : tasks[g].tte = k}

\* C4: the loop never fails fast: when the call returns, every position
\* 0..N-1 has had exactly one goroutine started and finished, whatever
\* failed before; and no goroutine is ever started for a position >= N.
C4_NeverFailsFast ==
  /\ excuted <= all
  /\ ~MainPanic
  /\ \A g \in Tasks : tasks[g].tte \in Positions
  /\ result.returned =>
       \A k \in Positions :
         /\ Cardinality(TasksOf(k)) = 1
         /\ \A g \in TasksOf(k) : tasks[g].pc = "done"

\* The call returned after a failure in one wave and a record attempted in a
\* later wave.
C4_Witness ==
  /\ result.returned
  /\ \E g \in Failed : \E h \in Tasks :
       tasks[g].wave < tasks[h].wave /\ tasks[h].pc = "done"

\* C5: no goroutine of a later wave has started while a goroutine of an
\* earlier wave has not finished.
C5_WaveBarrier ==
  \A g \in Tasks : \A h \in Tasks :
    tasks[g].wave < tasks[h].wave => tasks[g].pc = "done"

\* In the second wave the goroutine started last finished first.
C5_Witness ==
  \E g \in Tasks : \E h \in Tasks :
    /\ g < h
    /\ tasks[g].wave = 2 /\ tasks[h].wave = 2
    /\ tasks[g].pc = "tx" /\ tasks[h].pc = "done"

RECURSIVE SumTo(_, _)
\* waves[1] + ... + waves[n]
SumTo(ws, n) == IF n = 0 THEN 0 ELSE SumTo(ws, n - 1) + ws[n]

Min(a, b) == IF a <= b THEN a ELSE b

\* C repeated floor(N/C) times, then N mod C.
ExpectedWaves(n, c) ==
  [w \in 1 .. (n \div c) + 1 |-> IF w <= n \div c THEN c ELSE n % c]

\* C6: every wave has size min(C, records not yet scheduled); when the call
\* returns the sizes are C repeated floor(N/C) times followed by N mod C and
\* sum to N; records go to waves in input order.
C6_WaveSizes ==
  /\ \A w \in 1 .. Len(waves) :
       waves[w] = Min(RPCConcurrence, all - SumTo(waves, w - 1))
  /\ \A g \in Tasks :
       /\ tasks[g].tte = g - 1
       /\ tasks[g].wave = ((g - 1) \div RPCConcurrence) + 1
  /\ result.returned =>
       /\ waves = ExpectedWaves(all, RPCConcurrence)
       /\ SumTo(waves, Len(waves)) = all

\* Three records with a limit of two: waves of 2 and 1.
C6_Witness ==
  /\ result.returned
  /\ all = 3
  /\ RPCConcurrence = 2
  /\ waves = <<2, 1>>

\* Goroutines whose GetBlockRevertRateByHash call failed.
RateFailures == {g \in Tasks : tasks[g].rate = "err"}

\* C7 as stated: after a failed resolve-confidence call the record holds the
\* block hash, its revert rate is unset, and the record is in the error.
C7_BlockHashKept ==
  \A g \in RateFailures :
    /\ list[tasks[g].tte].BlockHash = tasks[g].tx
    /\ list[tasks[g].tte].RevertRate = Unset
    /\ result.returned => MsgsOf(result.err, g) # {}

\* C7 amended: after a failed resolve-confidence call the record is not
\* written at all (block hash and revert rate both unset), the goroutine
\* leaves a non-empty failure list when it finishes, and the call returns an
\* error and no list.
C7_RecordUntouched ==
  \A g \in RateFailures :
    /\ tasks[g].tx \in Blocks
    /\ list[tasks[g].tte].BlockHash = Unset
    /\ list[tasks[g].tte].RevertRate = Unset
    /\ tasks[g].pc = "done" => Len(errorStrs) > 0
    /\ result.returned => ~result.errNil /\ result.listNil

\* The call returned after a resolve-confidence failure.
C7_Witness ==
  /\ result.returned
  /\ RateFailures # {}

\* C8 as stated: the messages of the returned error are in ascending batch
\* position.
C8_RecordOrder ==
  result.returned =>
    \A p \in 1 .. Len(result.err) : \A q \in 1 .. Len(result.err) :
      p < q => tasks[result.err[p].task].tte < tasks[result.err[q].task].tte

\* C8 amended: the messages are in wave order, so messages of records of
\* different waves are in ascending batch position; inside one wave the
\* order is the order of the appends.
C8_WaveOrder ==
  /\ \A p \in 1 .. Len(errorStrs) : \A q \in 1 .. Len(errorStrs) :
       p < q => tasks[errorStrs[p].task].wave <= tasks[errorStrs[q].task].wave
  /\ result.returned =>
       \A p \in 1 .. Len(result.err) : \A q \in 1 .. Len(result.err) :
         (p < q /\ tasks[result.err[p].task].wave # tasks[result.err[q].task].wave)
           => tasks[result.err[p].task].tte < tasks[result.err[q].task].tte

\* The returned error holds messages of two waves.
C8_Witness ==
  /\ result.returned
  /\ \E p \in 1 .. Len(result.err) : \E q \in 1 .. Len(result.err) :
       tasks[result.err[p].task].wave < tasks[result.err[q].task].wave

\* Goroutines whose transaction has no block hash yet.
Unmined == {g \in Tasks : tasks[g].tx = "unmined"}

\* Goroutines whose record was enriched.
Succeeded == {g \in Tasks : tasks[g].tx \in Blocks /\ tasks[g].rate \in Rates}

\* C9: a transaction without block hash is no failure: no message, no
\* GetBlockRevertRateByHash call, both fields stay unset; a batch of such
\* records and enriched records returns the list.
C9_UnminedIsNoFailure ==
  /\ \A g \in Unmined :
       /\ g \notin Failed
       /\ tasks[g].pc = "done"
       /\ tasks[g].rate = "none"
       /\ MsgsOf(errorStrs, g) = {}
       /\ list[tasks[g].tte].BlockHash = Unset
       /\ list[tasks[g].tte].RevertRate = Unset
  /\ (result.returned /\ Tasks = Unmined \cup Succeeded) =>
       result.errNil /\ ~result.listNil

\* The call returned the list of a batch with an unmined and an enriched record.
C9_Witness ==
  /\ result.returned
  /\ result.errNil
  /\ Unmined # {}
  /\ Succeeded # {}

\* Goroutines that asked the node about the transaction of record k.
AskedFor(k) == {g \in Tasks : tasks[g].hash = list[k].TransactionHash}

\* C10: if no node call failed, the returned list has the length and order
\* of the fetched list, and every record whose transaction has a block holds
\* the block hash returned for its own transaction and the revert rate
\* returned for that block.
C10_EnrichedInPlace ==
  (result.returned /\ Failed = {}) =>
    /\ ~result.listNil
    /\ DOMAIN result.list = Positions
    /\ \A k \in Positions :
         /\ result.list[k].TransactionHash = NewEvent(k).TransactionHash
         /\ \A g \in AskedFor(k) :
              /\ tasks[g].tx \in Blocks =>
                   /\ result.list[k].BlockHash = tasks[g].tx
                   /\ result.list[k].RevertRate = tasks[g].rate
              /\ tasks[g].tx = "unmined" =>
                   /\ result.list[k].BlockHash = Unset
                   /\ result.list[k].RevertRate = Unset
         /\ AskedFor(k) # {}

\* A batch of two enriched records with different blocks, in one wave.
C10_Witness ==
  /\ result.returned
  /\ Failed = {}
  /\ RPCConcurrence = 2
  /\ \E g \in Succeeded : \E h \in Succeeded :
       tasks[g].wave = tasks[h].wave /\ tasks[g].tx # tasks[h].tx

----------------------------------------------------------------------------
\* C11: for an empty list no goroutine is started, so no node call is issued,
\* nothing panics, and the call returns the (empty) list and no error.
C11_EmptyBatch ==
  all = 0 =>
    /\ tasks = <<>>
    /\ excuted = 0
    /\ \A w \in 1 .. Len(waves) : waves[w] = 0
    /\ pc # "panic"
    /\ errorStrs = <<>>
    /\ result.returned =>
         /\ result.errNil
         /\ ~result.listNil
         /\ DOMAIN result.list = {}

\* The call returned for an empty list.
C11_Witness ==
  /\ all = 0
  /\ result.returned
  /\ Len(waves) = 1

\* Goroutines whose GetTransactionByHash call failed.
TxFailures == {g \in Tasks : tasks[g].tx = "err"}

\* What holds of a goroutine whose resolve-block call failed.
TxFailureFrame ==
  \A g \in TxFailures :
    /\ tasks[g].rate = "none"
    /\ tasks[g].pc \in {"append", "write", "done"}
    /\ list[tasks[g].tte] = NewEvent(tasks[g].tte)
    /\ Cardinality(MsgsOf(errorStrs, g)) <= 1
    /\ tasks[g].pc # "done" => MsgsOf(errorStrs, g) = {}

\* The step in which such a goroutine finishes is the store of its message.
TxFailureRecorded ==
  \A g \in TxFailures :
    (tasks[g].pc # "done" /\ tasks'[g].pc = "done") =>
      /\ Cardinality(MsgsOf(errorStrs', g)) = 1
      /\ \A p \in MsgsOf(errorStrs', g) : errorStrs'[p] = TxErrMsg(g)

\* C14: when GetTransactionByHash fails for a record, its goroutine records
\* exactly one failure message (one append, never a second one), issues no
\* GetBlockRevertRateByHash call, and leaves the record's block hash and
\* revert rate as they were.
C14_ResolveBlockFailure == [](TxFailureFrame) /\ [][TxFailureRecorded]_vars

\* A goroutine whose resolve-block call failed has finished.
C14_Witness ==
  \E g \in TxFailures : tasks[g].pc = "done" /\ MsgsOf(errorStrs, g) # {}

\* The record at position k as its own goroutine's node calls leave it.
OwnOutcome(k) ==
  IF \E g \in TasksOf(k) : g \in Succeeded
    THEN LET g == CHOOSE h \in TasksOf(k) : h \in Succeeded
         IN Enriched(NewEvent(k), tasks[g].tx, tasks[g].rate)
    ELSE NewEvent(k)

\* C15: no two goroutines are started with the same record, the list keeps
\* its length and order, and every record holds what the node calls of its
\* own goroutine produced, whatever the other goroutines did.
C15_RecordDisjointness ==
  /\ \A g \in Tasks : \A h \in Tasks : g # h => tasks[g].tte # tasks[h].tte
  /\ DOMAIN list = Positions
  /\ \A k \in Positions : list[k] = OwnOutcome(k)

\* In one wave a record was enriched and the record of a sibling that failed
\* was left alone.
C15_Witness ==
  \E g \in Succeeded : \E h \in Failed :
    /\ tasks[g].wave = tasks[h].wave
    /\ tasks[h].pc = "done"
    /\ list[tasks[h].tte] = NewEvent(tasks[h].tte)
    /\ list[tasks[g].tte] # NewEvent(tasks[g].tte)

\* The message names the transaction hash of the record of its goroutine.
NamesTxHash(m) ==
  m.kind = "tx" /\ m.txHash = list[tasks[m.task].tte].TransactionHash

\* The message names the block hash returned for the record's transaction.
NamesBlockHash(m) ==
  m.kind = "rate" /\ m.blockHash = tasks[m.task].tx /\ m.blockHash \in Blocks

\* C17 as stated: every failure message names the transaction hash of the
\* record that failed.
C17_NamesTxHash ==
  \A p \in 1 .. Len(errorStrs) : NamesTxHash(errorStrs[p])

\* C17 amended: the message of a resolve-block failure names the record's
\* transaction hash; the message of a resolve-confidence failure names the
\* block hash the call was made with, not the transaction hash.
C17_NamesFailedCallHash ==
  \A p \in 1 .. Len(errorStrs) :
    LET m == errorStrs[p]
    IN IF tasks[m.task].rate = "err"
         THEN NamesBlockHash(m) /\ ~NamesTxHash(m)
         ELSE tasks[m.task].tx = "err" /\ NamesTxHash(m)

\* The returned error holds a message of each kind.
C17_Witness ==
  /\ result.returned
  /\ \E p \in 1 .. Len(result.err) : result.err[p].kind = "tx"
  /\ \E p \in 1 .. Len(result.err) : result.err[p].kind = "rate"

\* Goroutines whose GetTransactionByHash call returned no error.
TxErrorFree == {g \in Tasks : tasks[g].tx \in ({"nil", "unmined"} \cup Blocks)}

\* C20: after an error-free GetTransactionByHash (block hash, no block hash,
\* or no transaction object) nothing panics and no failure is recorded for
\* the resolve-block call.
C20_NoCrash ==
  \A g \in TxErrorFree :
    /\ tasks[g].pc # "panic"
    /\ pc # "panic"
    /\ \A p \in MsgsOf(errorStrs, g) : errorStrs[p].kind # "tx"

\* The scheduler runs every goroutine that can run, and every node call returns.
FairSpec == Spec /\ WF_vars(Next)

\* C16: the call eventually returns, and not while a goroutine is running.
C16_Terminates ==
  /\ <>(result.returned)
  /\ [](result.returned => InFlight = {})

----------------------------------------------------------------------------
\* NewRichClient (lines 77-120)

\* Values a caller may put into a field of ServerConfig; "" is the empty field.
ConfigValues == {"v1", "v2"}

NoOptions == [f \in Settings |-> ""]

\* The configOption arguments explored: nil, the empty config, one field
\* set, every field set.
Configs ==
  {[isNil |-> TRUE, opt |-> NoOptions], [isNil |-> FALSE, opt |-> NoOptions]}
  \cup {[isNil |-> FALSE, opt |-> [NoOptions EXCEPT ![f] = v]] :
          f \in Settings, v \in ConfigValues}
  \cup {[isNil |-> FALSE, opt |-> [f \in Settings |-> v]] : v \in ConfigValues}

\* if configOption.X != "" { x = configOption.X }
Override(old, new) == IF new # "" THEN new ELSE old

\* Lines 82-111: the package-level state after the assignments.
Configure(gl, cfg) ==
  IF cfg.isNil THEN gl
  ELSE [cfxScanBackend |->
          [Scheme |-> Override(gl.cfxScanBackend.Scheme, cfg.opt["CfxScanBackendSchema"]),
           Address |-> Override(gl.cfxScanBackend.Address, cfg.opt["CfxScanBackendAddress"])],
        contractManager |->
          [Scheme |-> Override(gl.contractManager.Scheme, cfg.opt["ContractManagerSchema"]),
           Address |-> Override(gl.contractManager.Address, cfg.opt["ContractManagerAddress"])],
        accountBalancesPath |->
          Override(gl.accountBalancesPath, cfg.opt["AccountBalancesPath"]),
        accountTokenTxListPath |->
          Override(gl.accountTokenTxListPath, cfg.opt["AccountTokenTxListPath"]),
        txListPath |-> Override(gl.txListPath, cfg.opt["TxListPath"]),
        contractQueryPath |->
          Override(gl.contractQueryPath, cfg.opt["ContractQueryPath"])]

\* Lines 113-119: the client holds the two package-level pointers.  `config`
\* and `used` are bookkeeping: the argument, and the settings the client
\* worked with when it was returned.
NewClient(gl, cfg) ==
  LET rc == [cfxScanBackend |-> "cfxScanBackend",
             contractManager |-> "contractManager"]
  IN [cfxScanBackend |-> rc.cfxScanBackend,
      contractManager |-> rc.contractManager,
      config |-> cfg,
      used |-> UsesIn(gl, rc)]

NewRichClient(cfg) ==
  /\ Len(clients) < MaxClients
  /\ globals' = Configure(globals, cfg)
  /\ clients' = Append(clients, NewClient(globals', cfg))
  /\ UNCHANGED <<enrichVars, send>>

\* GetAccountTokenTransfers is not running.
EnrichIdle ==
  /\ all = 0
  /\ RPCConcurrence = 1
  /\ con = 1
  /\ excuted = 0
  /\ i = 0
  /\ isLastLoop = FALSE
  /\ errorStrs = <<>>
  /\ wg = 0
  /\ list = [k \in Positions |-> NewEvent(k)]
  /\ tasks = <<>>
  /\ pc = "idle"
  /\ result = NoResult
  /\ waves = <<>>

ClientInit == OtherInit /\ EnrichIdle

ClientNext == \E cfg \in Configs : NewRichClient(cfg)

ClientSpec == ClientInit /\ [][ClientNext]_vars

\* The documented default of every setting.
DefaultOf == UsesIn(DefaultGlobals, [cfxScanBackend |-> "cfxScanBackend",
                                    contractManager |-> "contractManager"])

\* C13: a client constructed with an empty field (or a nil config) uses the
\* default of that setting, whatever earlier NewRichClient calls were given;
\* and a later NewRichClient call never changes what an earlier client uses.
C13_DefaultsAndIsolation ==
  \A c \in 1 .. Len(clients) :
    /\ \A f \in Settings :
         (clients[c].config.isNil \/ clients[c].config.opt[f] = "")
           => clients[c].used[f] = DefaultOf[f]
    /\ UsesIn(globals, clients[c]) = clients[c].used

----------------------------------------------------------------------------
\* CreateSendTokenTransaction (lines 288-330) and getDataForTransToken
\* (lines 332-368)

\* Arguments explored.  "nil" is the nil pointer.
Addresses == {"0xAA", "0xBB"}
Amounts == {"0x0", "0x64"}
TokenIdentifiers == {"nil", "0xT1"}

\* Values of cInfo.GetContractType(): the three types the code names and
\* three it does not handle.
ContractTypes == {"ERC20", "ERC777", "FANSCOIN", "ERC721", "DEX", "GENERAL"}

\* common.HexToAddress(string(to)): the 20 bytes of the hex string.
HexToAddress(a) ==
  CASE a = "0xAA" -> "addr(aa)"
    [] a = "0xBB" -> "addr(bb)"
    [] OTHER -> "addr(00)"

\* amount.ToInt(): the big integer of the hex quantity.
ToInt(q) ==
  CASE q = "0x0" -> "0"
    [] q = "0x64" -> "100"
    [] OTHER -> "nil"

\* []byte{}
EmptyBytes == "bytes()"

\* What contract.GetData(method, args...) returns when it succeeds: the
\* encoding of the method and its arguments, one word each.
Encode(method, args) == <<method>> \o args

\* A call to a collaborator, as logged; "-" is an argument the call does not have.
NoCall ==
  [name |-> "-", path |-> "-", address |-> "-", fields |-> "-", abi |-> "-",
   method |-> "-", from |-> "-", to |-> "-", amount |-> "-", data |-> <<>>,
   args |-> <<>>]

\* A dispatch that forgets FANSCOIN.
UsesTransferERC20Only(t) == t = "ERC20"

\* contractType == richtypes.ERC20 || contractType == richtypes.FANSCOIN
UsesTransfer(t) == t = "ERC20" \/ t = "FANSCOIN"

\* contractType == richtypes.ERC777
UsesSend(t) == t = "ERC777"

\* The contract.GetData call of line 338 / line 354.
GetDataCall(method, args) ==
  [NoCall EXCEPT !.name = "GetData", !.method = method, !.args = args]

\* What getDataForTransToken returns, and the calls it makes; enc is the
\* outcome of contract.GetData.
EncodeWith(method, args, enc) ==
  IF enc = "err"
    THEN [data |-> <<>>, errNil |-> FALSE,
          err |-> [step |-> "GetData", tag |-> method],
          calls |-> <<GetDataCall(method, args)>>]
    ELSE [data |-> Encode(method, args), errNil |-> TRUE,
          err |-> [step |-> "-", tag |-> "-"],
          calls |-> <<GetDataCall(method, args)>>]

\* Lines 332-368.
GetDataForTransToken(contractType, to, amount, enc) ==
  IF UsesTransfer(contractType)
    THEN EncodeWith("transfer", <<HexToAddress(to), ToInt(amount)>>, enc)
  ELSE IF UsesSend(contractType)
    THEN EncodeWith("send", <<HexToAddress(to), ToInt(amount), EmptyBytes>>, enc)
  ELSE [data |-> <<>>, errNil |-> FALSE,
        err |-> [step |-> "unsupported", tag |-> contractType],
        calls |-> <<>>]

\* No result of getDataForTransToken yet.
NoDispatch ==
  [data |-> <<>>, errNil |-> TRUE, err |-> [step |-> "-", tag |-> "-"],
   calls |-> <<>>]

\* An unsigned transaction as CreateUnsignedTransaction builds it.
UnsignedTx(from, to, amount, data) ==
  [from |-> from, to |-> to, value |-> amount, data |-> data]
NoTx == UnsignedTx("-", "-", "-", <<>>)

\* The call CreateSendTokenTransaction(from, to, amount, tokenIdentifier)
\* at its first line.
SendStart(from, to, amount, token) ==
  [pc |-> "start", from |-> from, to |-> to, amount |-> amount,
   tokenIdentifier |-> token, contractType |-> "-", abi |-> "-",
   dispatched |-> FALSE, dispatch |-> NoDispatch,
   steps |-> <<>>, outcomes |-> <<>>, calls |-> <<>>,
   txNil |-> TRUE, tx |-> NoTx, errNil |-> TRUE, err |-> "-"]

\* return nil, types.WrapError(err, msg)
Fail(sd, step) ==
  [sd EXCEPT !.pc = "done", !.txNil = TRUE, !.tx = NoTx,
             !.errNil = FALSE, !.err = step]

\* One of the four steps ran with outcome o.
Step(sd, step, o, called) ==
  [sd EXCEPT !.steps = Append(@, step), !.outcomes = Append(@, o),
             !.calls = @ \o called]

\* A check that never sees the error.
StepFailedNever(o) == FALSE

\* if err != nil
StepFailed(o) == o = "err"

\* A token transfer that also sends the amount as value.
TokenTxAmountKept(amount) == amount

\* The amount handed to CreateUnsignedTransaction on the token path (line 324).
TokenTxAmount(amount) == "nil"

\* rc.client.CreateUnsignedTransaction(from, to, amount, data)
CreateCall(from, to, amount, data) ==
  [NoCall EXCEPT !.name = "CreateUnsignedTransaction", !.from = from,
                 !.to = to, !.amount = amount, !.data = data]

\* Lines 292-299: no token identifier, a plain value transfer.
SendNative(o) ==
  /\ send.pc = "start"
  /\ send.tokenIdentifier = "nil"
  /\ LET c == CreateCall(send.from, send.to, send.amount, <<>>)
         sd == [send EXCEPT !.calls = Append(@, c)]
     IN send' = IF StepFailed(o)
                  THEN Fail(sd, "create")
                  ELSE [sd EXCEPT !.pc = "done", !.txNil = FALSE,
                          !.tx = UnsignedTx(send.from, send.to, send.amount, <<>>)]
  /\ UNCHANGED <<enrichVars, globals, clients>>

\* Lines 301-310: the contract-manager query for the ABI and the type code.
QueryContract(o, t) ==
  /\ send.pc = "start"
  /\ send.tokenIdentifier # "nil"
  /\ LET c == [NoCall EXCEPT !.name = "Get", !.path = globals.contractQueryPath,
                             !.address = send.tokenIdentifier,
                             !.fields = "abi,typeCode"]
         sd == Step(send, "metadata", o, <<c>>)
     IN send' = IF StepFailed(o)
                  THEN Fail(sd, "metadata")
                  ELSE [sd EXCEPT !.pc = "contract", !.contractType = t,
                                  !.abi = "abi"]
  /\ UNCHANGED <<enrichVars, globals, clients>>

\* Lines 312-316: rc.client.GetContract(cInfo.ABI, &to).
GetContract(o) ==
  /\ send.pc = "contract"
  /\ LET c == [NoCall EXCEPT !.name = "GetContract", !.abi = send.abi,
                             !.to = send.to]
         sd == Step(send, "getContract", o, <<c>>)
     IN send' = IF StepFailed(o)
                  THEN Fail(sd, "getContract")
                  ELSE [sd EXCEPT !.pc = "data"]
  /\ UNCHANGED <<enrichVars, globals, clients>>

\* Lines 318-322: getDataForTransToken; enc is the outcome of contract.GetData.
GetData(enc) ==
  /\ send.pc = "data"
  /\ LET d == GetDataForTransToken(send.contractType, send.to, send.amount, enc)
         o == IF d.errNil THEN "ok" ELSE "err"
         sd == [Step(send, "encode", o, d.calls) EXCEPT
                  !.dispatched = TRUE, !.dispatch = d]
     IN send' = IF StepFailed(o)
                  THEN Fail(sd, "encode")
                  ELSE [sd EXCEPT !.pc = "create"]
  /\ UNCHANGED <<enrichVars, globals, clients>>

\* Lines 324-329: rc.client.CreateUnsignedTransaction(from, to, nil, data).
CreateTx(o) ==
  /\ send.pc = "create"
  /\ LET amt == TokenTxAmount(send.amount)
         c == CreateCall(send.from, send.to, amt, send.dispatch.data)
         sd == Step(send, "create", o, <<c>>)
     IN send' = IF StepFailed(o)
                  THEN Fail(sd, "create")
                  ELSE [sd EXCEPT !.pc = "done", !.txNil = FALSE,
                          !.tx = UnsignedTx(send.from, send.to, amt,
                                            send.dispatch.data)]
  /\ UNCHANGED <<enrichVars, globals, clients>>

Outcomes == {"ok", "err"}

SendInit ==
  /\ EnrichIdle
  /\ globals = DefaultGlobals
  /\ clients = <<>>
  /\ send \in {SendStart(f, t, a, tok) :
                 f \in Addresses, t \in Addresses, a \in Amounts,
                 tok \in TokenIdentifiers}

SendNext ==
  \/ \E o \in Outcomes : SendNative(o)
  \/ \E o \in Outcomes : \E t \in ContractTypes : QueryContract(o, t)
  \/ \E o \in Outcomes : GetContract(o)
  \/ \E enc \in Outcomes : GetData(enc)
  \/ \E o \in Outcomes : CreateTx(o)

SendSpec == SendInit /\ [][SendNext]_vars

----------------------------------------------------------------------------
\* The GetData calls logged so far.
GetDataCalls == {n \in 1 .. Len(send.calls) : send.calls[n].name = "GetData"}

\* The CreateUnsignedTransaction calls logged so far.
CreateCalls ==
  {n \in 1 .. Len(send.calls) : send.calls[n].name = "CreateUnsignedTransaction"}

\* The encoding of transfer(to, amount) / send(to, amount, empty bytes).
TransferData(to, amount) == <<"transfer", HexToAddress(to), ToInt(amount)>>
SendData(to, amount) == <<"send", HexToAddress(to), ToInt(amount), EmptyBytes>>

\* C12: once getDataForTransToken has run: for ERC20 and for FANSCOIN a
\* successful encoding is that of transfer(to, amount), the same for both
\* tags; for ERC777 it is that of send(to, amount, empty bytes); for every
\* other tag the result is an error naming the tag, no data and no GetData call.
C12_Dispatch ==
  send.dispatched =>
    LET d == send.dispatch
        t == send.contractType
    IN /\ t \in {"ERC20", "FANSCOIN"} =>
            /\ Cardinality(GetDataCalls) = 1
            /\ \A n \in GetDataCalls :
                 /\ send.calls[n].method = "transfer"
                 /\ send.calls[n].args = <<HexToAddress(send.to), ToInt(send.amount)>>
            /\ d.errNil =>
                 /\ d.data = TransferData(send.to, send.amount)
                 /\ d.data = GetDataForTransToken("ERC20", send.to, send.amount, "ok").data
                 /\ d.data = GetDataForTransToken("FANSCOIN", send.to, send.amount, "ok").data
            /\ ~d.errNil => d.data = <<>>
       /\ t = "ERC777" =>
            /\ Cardinality(GetDataCalls) = 1
            /\ \A n \in GetDataCalls : send.calls[n].method = "send"
            /\ d.errNil => d.data = SendData(send.to, send.amount)
            /\ ~d.errNil => d.data = <<>>
       /\ t \notin {"ERC20", "FANSCOIN", "ERC777"} =>
            /\ ~d.errNil
            /\ d.err.step = "unsupported"
            /\ d.err.tag = t
            /\ d.data = <<>>
            /\ GetDataCalls = {}

\* FANSCOIN call data was produced.
C12_Witness ==
  /\ send.dispatched
  /\ send.contractType = "FANSCOIN"
  /\ send.dispatch.errNil
  /\ send.dispatch.data = TransferData(send.to, send.amount)

\* The four steps of the token path, in order.
StepOrder == <<"metadata", "getContract", "encode", "create">>

\* C18: on the token path the steps run in the order metadata query,
\* GetContract, encoding, CreateUnsignedTransaction; nothing runs after a
\* failed step, the call then returns an error and no transaction; a
\* transaction is returned only after four successful steps.
C18_FailFast ==
  send.pc # "idle" /\ send.tokenIdentifier # "nil" =>
    /\ Len(send.steps) <= 4
    /\ send.steps = SubSeq(StepOrder, 1, Len(send.steps))
    /\ \A n \in 1 .. Len(send.outcomes) - 1 : send.outcomes[n] = "ok"
    /\ \A n \in 1 .. Len(send.outcomes) :
         send.outcomes[n] = "err" =>
           /\ send.pc = "done"
           /\ ~send.errNil
           /\ send.txNil
           /\ send.err = StepOrder[n]
    /\ ~send.txNil =>
         /\ send.pc = "done"
         /\ send.errNil
         /\ send.outcomes = <<"ok", "ok", "ok", "ok">>
    /\ send.pc = "done" => (send.txNil <=> ~send.errNil)

\* The call failed at GetContract.
C18_Witness ==
  /\ send.pc = "done"
  /\ send.steps = <<"metadata", "getContract">>
  /\ send.outcomes = <<"ok", "err">>

\* C19: without a token identifier the only call is one
\* CreateUnsignedTransaction with the amount and no data; with a token
\* identifier CreateUnsignedTransaction gets the encoded data and no amount.
C19_NativeBypass ==
  /\ (send.pc = "done" /\ send.tokenIdentifier = "nil") =>
       /\ send.calls = <<CreateCall(send.from, send.to, send.amount, <<>>)>>
       /\ send.steps = <<>>
       /\ ~send.dispatched
       /\ ~send.txNil => send.tx = UnsignedTx(send.from, send.to, send.amount, <<>>)
  /\ (send.pc # "idle" /\ send.tokenIdentifier # "nil") =>
       \A n \in CreateCalls :
         /\ send.calls[n].amount = "nil"
         /\ send.calls[n].data = send.dispatch.data
         /\ send.calls[n].data # <<>>
         /\ send.calls[n].from = send.from
         /\ send.calls[n].to = send.to

\* A plain value transfer was built.
C19_Witness ==
  /\ send.pc = "done"
  /\ send.tokenIdentifier = "nil"
  /\ ~send.txNil
  /\ Len(send.calls) = 1

====
